---- MODULE Spec2Model ----
(***************************************************************************)
(* json-translator (src/src/main.rs): a JSON document is flattened into a  *)
(* map from path keys to leaves, its string leaves are translated in       *)
(* delimiter-joined batches through a provider, with a cache consulted     *)
(* before batching, and the document is rebuilt from the flat map.         *)
(*                                                                         *)
(* Strings are sequences of one-character strings, so that concatenation,  *)
(* byte length and splitting on a separator are computed as the code       *)
(* computes them.  Maps (HashMap<String, _>) are functions whose domain is *)
(* a set of such strings.                                                  *)
(***************************************************************************)
EXTENDS Integers, Sequences, FiniteSets, TLC

VARIABLES
    doc,            \* data/input.json, parsed (json_value in main)
    cache_file,     \* content of data/cache_<lang>.json
    outputs,        \* the output documents written so far, one per run
    run,            \* number of the current run of the program
    pc,             \* position of main / translate_values
    cache,          \* main's in-memory cache
    loaded,         \* the cache as main loaded it at the start of the run (history)
    values,         \* values_to_translate: sequence of <<path key, source>>
    flat_map,       \* flat_map of main
    translated,     \* translate_values' result map
    batch,          \* translate_values' batch payload
    batch_length,   \* translate_values' batch_length
    keys_for_batch, \* translate_values' keys_for_batch
    batch_units,    \* positions in values of the units of the batch (history)
    idx,            \* position of the for loop over values (1-based)
    calls,          \* the calls of translate_batch so far (history)
    responses       \* the provider's answers so far (history)

vars == <<doc, cache_file, outputs, run, pc, cache, loaded, values, flat_map,
          translated, batch, batch_length, keys_for_batch, batch_units, idx, calls,
          responses>>

(***************************************************************************)
(* Bounds of the model.                                                    *)
(***************************************************************************)
MaxDepth == 2
MaxWidth == 2

(***************************************************************************)
(* Strings.                                                                *)
(***************************************************************************)
\* The characters used, in byte order (String's Ord is byte-wise).
Chars == <<"-", "0", "1", "2", "3", "4", "5", "6", "7", "8", "9", ":", ">",
           "[", "]", "a", "b", "c", "d", "e", "f", "g", "h", "i", "j", "k",
           "l", "m", "n", "o", "p", "q", "r", "s", "t", "u", "v", "w", "x",
           "y", "z">>

Code(c) == CHOOSE i \in 1..Len(Chars) : Chars[i] = c

RECURSIVE StrLess(_, _)
StrLess(a, b) ==
    IF b = <<>> THEN FALSE
    ELSE IF a = <<>> THEN TRUE
    ELSE IF Head(a) = Head(b) THEN StrLess(Tail(a), Tail(b))
    ELSE Code(Head(a)) < Code(Head(b))

\* Iteration order of a serde_json Map (a BTreeMap): ascending keys.
RECURSIVE SortedKeys(_)
SortedKeys(S) ==
    IF S = {} THEN <<>>
    ELSE LET k == CHOOSE c \in S : \A o \in S \ {c} : StrLess(c, o)
         IN  <<k>> \o SortedKeys(S \ {k})

\* format!("{}", index) of a usize.
RECURSIVE Digits(_)
Digits(n) ==
    IF n < 10 THEN <<Chars[n + 2]>>
    ELSE Digits(n \div 10) \o <<Chars[(n % 10) + 2]>>

\* Position of the first occurrence of sep in s, 0 when there is none.
Find(s, sep) ==
    LET hits == {i \in 1..(Len(s) - Len(sep) + 1) :
                    SubSeq(s, i, i + Len(sep) - 1) = sep}
    IN  IF hits = {} THEN 0
        ELSE CHOOSE i \in hits : \A j \in hits : i <= j

\* str::split(sep).collect(): the pieces between the non-overlapping
\* occurrences of sep found from the left; never empty.
RECURSIVE Split(_, _)
Split(s, sep) ==
    LET i == Find(s, sep)
    IN  IF i = 0 THEN <<s>>
        ELSE <<SubSeq(s, 1, i - 1)>> \o Split(SubSeq(s, i + Len(sep), Len(s)), sep)

suffix == <<":", ":">>
ARROW == <<"-", ">">>

(***************************************************************************)
(* serde_json::Value.                                                      *)
(***************************************************************************)
Null == [t |-> "Null"]
Bool(b) == [t |-> "Bool", b |-> b]
Number(n) == [t |-> "Number", n |-> n]
String(s) == [t |-> "String", s |-> s]
Array(a) == [t |-> "Array", a |-> a]
Object(m) == [t |-> "Object", m |-> m]

EmptyMap == <<>>
\* HashMap::insert / extend: the new entry replaces an old one of the same key.
Insert(m, k, v) == (k :> v) @@ m
Extend(m, more) == more @@ m

(***************************************************************************)
(* flatten_json and collect_values.                                        *)
(***************************************************************************)
NewPrefixKey(prefix, key) ==
    IF prefix = <<>> THEN key ELSE prefix \o ARROW \o key

NewPrefixIndex(prefix, index) == prefix \o <<"[">> \o Digits(index) \o <<"]">>

RECURSIVE flatten_json(_, _, _)
RECURSIVE flatten_object(_, _, _, _)
RECURSIVE flatten_array(_, _, _, _)

flatten_object(m, ks, fm, prefix) ==
    IF ks = <<>> THEN fm
    ELSE flatten_object(m, Tail(ks),
             flatten_json(m[Head(ks)], fm, NewPrefixKey(prefix, Head(ks))),
             prefix)

flatten_array(arr, index, fm, prefix) ==
    IF index >= Len(arr) THEN fm
    ELSE flatten_array(arr, index + 1,
             flatten_json(arr[index + 1], fm, NewPrefixIndex(prefix, index)),
             prefix)

flatten_json(json_value, fm, prefix) ==
    CASE json_value.t = "Object" ->
            flatten_object(json_value.m, SortedKeys(DOMAIN json_value.m), fm, prefix)
      [] json_value.t = "Array" ->
            flatten_array(json_value.a, 0, fm, prefix)
      [] OTHER -> Insert(fm, prefix, json_value)

RECURSIVE collect_values(_, _, _)
RECURSIVE collect_object(_, _, _, _)
RECURSIVE collect_array(_, _, _, _)

collect_object(m, ks, vals, prefix) ==
    IF ks = <<>> THEN vals
    ELSE collect_object(m, Tail(ks),
             collect_values(m[Head(ks)], vals, NewPrefixKey(prefix, Head(ks))),
             prefix)

collect_array(arr, index, vals, prefix) ==
    IF index >= Len(arr) THEN vals
    ELSE collect_array(arr, index + 1,
             collect_values(arr[index + 1], vals, NewPrefixIndex(prefix, index)),
             prefix)

collect_values(json_value, vals, prefix) ==
    CASE json_value.t = "Object" ->
            collect_object(json_value.m, SortedKeys(DOMAIN json_value.m), vals, prefix)
      [] json_value.t = "Array" ->
            collect_array(json_value.a, 0, vals, prefix)
      [] json_value.t = "String" -> Append(vals, <<prefix, json_value.s>>)
      [] OTHER -> vals

(***************************************************************************)
(* insert_into_json and rebuild_json.                                      *)
(***************************************************************************)
\* target is an Object wherever rebuild_json reaches: the root is json!({})
\* and the recursion only descends into a value it has made an Object.
RECURSIVE insert_into_json(_, _, _)
insert_into_json(target, keys, value) ==
    IF keys = <<>> THEN target
    ELSE LET first == Head(keys)
             rest == Tail(keys)
         IN  IF rest = <<>>
             THEN IF target.t = "Object"
                  THEN Object(Insert(target.m, first, value))
                  ELSE target
             ELSE LET found == IF first \in DOMAIN target.m
                               THEN target.m[first] ELSE Object(EmptyMap)
                      next_target == IF found.t = "Object"
                                     THEN found ELSE Object(EmptyMap)
                  IN  Object(Insert(target.m, first,
                                    insert_into_json(next_target, rest, value)))

\* The loop of rebuild_json over the flat map's entries taken in `order`.
RECURSIVE rebuild_loop(_, _, _)
rebuild_loop(json_value, fm, order) ==
    IF order = <<>> THEN json_value
    ELSE rebuild_loop(
             insert_into_json(json_value, Split(Head(order), ARROW), fm[Head(order)]),
             fm, Tail(order))

rebuild_json(fm, order) == rebuild_loop(Object(EmptyMap), fm, order)

\* The orders in which a HashMap may iterate over its keys.
RECURSIVE IterationOrders(_)
IterationOrders(S) ==
    IF S = {} THEN {<<>>}
    ELSE UNION {{<<k>> \o o : o \in IterationOrders(S \ {k})} : k \in S}

(***************************************************************************)
(* Documents.                                                              *)
(***************************************************************************)
\* The JSON values of nesting depth at most d whose leaves are in `leaves`,
\* whose objects have at most w of the keys in `keys` and whose arrays have
\* at most w elements.
RECURSIVE Documents(_, _, _, _)
Documents(d, leaves, keys, w) ==
    IF d = 0 THEN leaves
    ELSE LET sub == Documents(d - 1, leaves, keys, w)
         IN  leaves
             \cup {Object(m) : m \in UNION {[ks -> sub] :
                                  ks \in {s \in SUBSET keys : Cardinality(s) <= w}}}
             \cup {Array(a) : a \in UNION {[1..n -> sub] : n \in 0..w}}

red == <<"r", "e", "d">>
TreeKeys == {<<>>, <<"a">>, <<"b">>}
TreeLeaves == {String(red), Number(42)}

(***************************************************************************)
(* The flatten / rebuild round trip on its own, with no translation.       *)
(***************************************************************************)
InitTree ==
    /\ doc \in Documents(MaxDepth, TreeLeaves, TreeKeys, MaxWidth)
    /\ cache_file = EmptyMap
    /\ outputs = <<>>
    /\ run = 1
    /\ pc = "init"
    /\ cache = EmptyMap
    /\ loaded = EmptyMap
    /\ values = <<>>
    /\ flat_map = EmptyMap
    /\ translated = EmptyMap
    /\ batch = <<>>
    /\ batch_length = 0
    /\ keys_for_batch = <<>>
    /\ batch_units = <<>>
    /\ idx = 1
    /\ calls = <<>>
    /\ responses = <<>>

TreeFlatten ==
    /\ pc = "init"
    /\ values' = collect_values(doc, <<>>, <<>>)
    /\ flat_map' = flatten_json(doc, EmptyMap, <<>>)
    /\ pc' = "flat"
    /\ UNCHANGED <<doc, cache_file, outputs, run, cache, loaded, translated, batch,
                   batch_length, keys_for_batch, batch_units, idx, calls, responses>>

TreeRebuild ==
    /\ pc = "flat"
    /\ \E order \in IterationOrders(DOMAIN flat_map) :
          outputs' = Append(outputs, [run |-> run, loaded |-> loaded,
                                      translated |-> translated,
                                      json |-> rebuild_json(flat_map, order)])
    /\ pc' = "done"
    /\ UNCHANGED <<doc, cache_file, run, cache, loaded, values, flat_map, translated,
                   batch, batch_length, keys_for_batch, batch_units, idx, calls,
                   responses>>

NextTree == TreeFlatten \/ TreeRebuild

SpecTree == InitTree /\ [][NextTree]_vars

(***************************************************************************)
(* translate_batch.                                                        *)
(***************************************************************************)
BATCH_SIZE_LIMIT == 1500

\* The "check cache first" loop: the entries of the keys before the first
\* key that the cache does not hold.
RECURSIVE cached_prefix(_, _, _)
cached_prefix(tb, keys, c) ==
    IF keys = <<>> \/ Head(keys) \notin DOMAIN c THEN tb
    ELSE cached_prefix(Insert(tb, Head(keys), c[Head(keys)]), Tail(keys), c)

\* all_cached started as false.
all_cached_nonempty(keys, c) ==
    keys # <<>> /\ \A i \in 1..Len(keys) : keys[i] \in DOMAIN c

all_cached(keys, c) == \A i \in 1..Len(keys) : keys[i] \in DOMAIN c

\* keys_for_batch.iter().zip(translated_values.iter()), each pair inserted.
RECURSIVE zip_insert(_, _, _)
zip_insert(m, keys, trans) ==
    IF keys = <<>> \/ trans = <<>> THEN m
    ELSE zip_insert(Insert(m, Head(keys), Head(trans)), Tail(keys), Tail(trans))

\* The map translate_batch returns after a successful answer.
translated_batch(keys, c, translated_text) ==
    zip_insert(cached_prefix(EmptyMap, keys, c), keys, Split(translated_text, suffix))

\* The cache after a successful answer.
cache_update(keys, c, translated_text) ==
    zip_insert(c, keys, Split(translated_text, suffix))

(***************************************************************************)
(* main and translate_values.                                              *)
(***************************************************************************)
\* The cache consulted with the unit's path key.
cache_lookup_path_key(unit) == unit[1]

\* The cache is consulted with the unit's source string.
cache_lookup_key(unit) == unit[2]

\* The limit tested on the batch before the unit is counted.
needs_flush_before(length, new_length) == length > BATCH_SIZE_LIMIT

needs_flush(length, new_length) == new_length > BATCH_SIZE_LIMIT

AtEnd == idx > Len(values)
Uncached == ~AtEnd /\ cache_lookup_key(values[idx]) \notin DOMAIN cache
NewLength == batch_length + Len(values[idx][2]) + Len(suffix)

\* main up to the call of translate_values, and its first lines.
Start ==
    /\ pc = "init"
    /\ cache' = cache_file
    /\ loaded' = cache_file
    /\ values' = collect_values(doc, <<>>, <<>>)
    /\ flat_map' = flatten_json(doc, EmptyMap, <<>>)
    /\ translated' = EmptyMap
    /\ batch' = <<>>
    /\ batch_length' = 0
    /\ keys_for_batch' = <<>>
    /\ batch_units' = <<>>
    /\ idx' = 1
    /\ pc' = "loop"
    /\ UNCHANGED <<doc, cache_file, outputs, run, calls, responses>>

\* One iteration of the loop whose value the cache holds.
CacheHit ==
    /\ pc = "loop"
    /\ ~AtEnd
    /\ cache_lookup_key(values[idx]) \in DOMAIN cache
    /\ translated' = Insert(translated, values[idx][1],
                            cache[cache_lookup_key(values[idx])])
    /\ idx' = idx + 1
    /\ UNCHANGED <<doc, cache_file, outputs, run, pc, cache, loaded, values, flat_map,
                   batch, batch_length, keys_for_batch, batch_units, calls, responses>>

\* One iteration of the loop that adds to the batch without a flush.
AddToBatch ==
    /\ pc = "loop"
    /\ Uncached
    /\ ~needs_flush(batch_length, NewLength)
    /\ batch' = batch \o values[idx][2] \o suffix
    /\ batch_length' = batch_length + Len(values[idx][2]) + Len(suffix)
    /\ keys_for_batch' = Append(keys_for_batch, values[idx][1])
    /\ batch_units' = Append(batch_units, idx)
    /\ idx' = idx + 1
    /\ UNCHANGED <<doc, cache_file, outputs, run, pc, cache, loaded, values, flat_map,
                   translated, calls, responses>>

\* translate_batch is called in the loop when the unit does not fit, and
\* after the loop when the batch is not empty.
CallSite ==
    /\ pc = "loop"
    /\ IF AtEnd THEN batch # <<>>
       ELSE Uncached /\ needs_flush(batch_length, NewLength)

Call(sent) == [run |-> run, batch |-> batch, keys |-> keys_for_batch,
               units |-> batch_units, sent |-> sent]

\* translate_values goes on with what translate_batch returned: in the loop
\* it resets the batch and adds the unit, after the loop it returns.
Resume(tb) ==
    /\ translated' = Extend(translated, tb)
    /\ IF AtEnd
       THEN /\ pc' = "merge"
            /\ UNCHANGED <<batch, batch_length, keys_for_batch, batch_units, idx>>
       ELSE /\ pc' = "loop"
            /\ batch' = values[idx][2] \o suffix
            /\ batch_length' = Len(values[idx][2]) + Len(suffix)
            /\ keys_for_batch' = <<values[idx][1]>>
            /\ batch_units' = <<idx>>
            /\ idx' = idx + 1

\* translate_batch finds every key cached and returns without a request.
ReturnCached ==
    /\ CallSite
    /\ all_cached(keys_for_batch, cache)
    /\ calls' = Append(calls, Call(FALSE))
    /\ Resume(cached_prefix(EmptyMap, keys_for_batch, cache))
    /\ UNCHANGED <<doc, cache_file, outputs, run, cache, loaded, values, flat_map,
                   responses>>

\* translate_batch posts the batch and awaits the provider.
SendRequest ==
    /\ CallSite
    /\ ~all_cached(keys_for_batch, cache)
    /\ calls' = Append(calls, Call(TRUE))
    /\ pc' = "await"
    /\ UNCHANGED <<doc, cache_file, outputs, run, cache, loaded, values, flat_map,
                   translated, batch, batch_length, keys_for_batch, batch_units, idx,
                   responses>>

\* The provider answers with a success status and a JSON body whose
\* translations[0].text is translated_text.
Answer(translated_text) ==
    /\ pc = "await"
    /\ responses' = Append(responses, [run |-> run, ok |-> TRUE,
                                       text |-> translated_text])
    /\ cache' = cache_update(keys_for_batch, cache, translated_text)
    /\ Resume(translated_batch(keys_for_batch, cache, translated_text))
    /\ UNCHANGED <<doc, cache_file, outputs, run, loaded, values, flat_map, calls>>

\* The failure taken as an answer that translates nothing.
ProviderFailsIgnored ==
    /\ pc = "await"
    /\ responses' = Append(responses, [run |-> run, ok |-> FALSE, text |-> <<>>])
    /\ Resume(EmptyMap)
    /\ UNCHANGED <<doc, cache_file, outputs, run, cache, loaded, values, flat_map,
                   calls>>

\* The request fails to be sent, the status is not a success, or the body
\* is not JSON: translate_batch, translate_values and main return the error.
ProviderFails ==
    /\ pc = "await"
    /\ responses' = Append(responses, [run |-> run, ok |-> FALSE, text |-> <<>>])
    /\ pc' = "error"
    /\ UNCHANGED <<doc, cache_file, outputs, run, cache, loaded, values, flat_map,
                   translated, batch, batch_length, keys_for_batch, batch_units, idx,
                   calls>>

\* The loop ends with an empty batch.
ReturnTranslated ==
    /\ pc = "loop"
    /\ AtEnd
    /\ batch = <<>>
    /\ pc' = "merge"
    /\ UNCHANGED <<doc, cache_file, outputs, run, cache, loaded, values, flat_map,
                   translated, batch, batch_length, keys_for_batch, batch_units, idx,
                   calls, responses>>

\* "Update the flat map with the translated values".
merge(fm, tr) ==
    [k \in DOMAIN fm |-> IF k \in DOMAIN tr THEN String(tr[k]) ELSE fm[k]]

\* main after translate_values: merge, rebuild, write the output, write the cache.
Finish ==
    /\ pc = "merge"
    /\ flat_map' = merge(flat_map, translated)
    /\ \E order \in IterationOrders(DOMAIN flat_map) :
          outputs' = Append(outputs, [run |-> run, loaded |-> loaded,
                                      translated |-> translated,
                                      json |-> rebuild_json(flat_map', order)])
    /\ cache_file' = cache
    /\ pc' = "done"
    /\ UNCHANGED <<doc, run, cache, loaded, values, translated, batch, batch_length,
                   keys_for_batch, batch_units, idx, calls, responses>>

MaxRuns == 2

\* The program is run again on the same input.
NextRun ==
    /\ pc \in {"done", "error"}
    /\ run < MaxRuns
    /\ run' = run + 1
    /\ pc' = "init"
    /\ cache' = EmptyMap
    /\ loaded' = EmptyMap
    /\ values' = <<>>
    /\ flat_map' = EmptyMap
    /\ translated' = EmptyMap
    /\ batch' = <<>>
    /\ batch_length' = 0
    /\ keys_for_batch' = <<>>
    /\ batch_units' = <<>>
    /\ idx' = 1
    /\ UNCHANGED <<doc, cache_file, outputs, calls, responses>>

(***************************************************************************)
(* The provider's texts.                                                   *)
(***************************************************************************)
MaxSegs == 2

hello == <<"h", "e", "l", "l", "o">>
bonjour == <<"b", "o", "n", "j", "o", "u", "r">>
monde == <<"m", "o", "n", "d", "e">>
Segments == {bonjour, monde}

SegmentSeqs(n) == UNION {[1..m -> Segments] : m \in 0..n}

\* s_1 d s_2 d ... s_m d
RECURSIVE Join(_)
Join(segs) == IF segs = <<>> THEN <<>> ELSE Head(segs) \o suffix \o Join(Tail(segs))

\* The same without the last delimiter.
Unterminated(text) == SubSeq(text, 1, Len(text) - Len(suffix))

Texts ==
    LET terminated == {Join(segs) : segs \in SegmentSeqs(MaxSegs)}
    IN  terminated \cup {Unterminated(t) : t \in terminated \ {<<>>}}

(***************************************************************************)
(* The program run on flat documents, against a provider that answers any  *)
(* of Texts, answers without a text (the batch is then taken as the text), *)
(* or fails.                                                               *)
(***************************************************************************)
Keys == {<<"a">>, <<"b">>}
Leaves == {String(hello), String(<<"b">>), Number(42), Null}
Caches == {EmptyMap, hello :> bonjour}

InitOn(documents, caches) ==
    /\ doc \in documents
    /\ cache_file \in caches
    /\ outputs = <<>>
    /\ run = 1
    /\ pc = "init"
    /\ cache = EmptyMap
    /\ loaded = EmptyMap
    /\ values = <<>>
    /\ flat_map = EmptyMap
    /\ translated = EmptyMap
    /\ batch = <<>>
    /\ batch_length = 0
    /\ keys_for_batch = <<>>
    /\ batch_units = <<>>
    /\ idx = 1
    /\ calls = <<>>
    /\ responses = <<>>

Init == InitOn(Documents(1, Leaves, Keys, MaxWidth), Caches)

Next ==
    \/ Start
    \/ CacheHit
    \/ AddToBatch
    \/ ReturnCached
    \/ SendRequest
    \/ \E text \in Texts \cup {batch} : Answer(text)
    \/ ProviderFails
    \/ ReturnTranslated
    \/ Finish
    \/ NextRun

Spec == Init /\ [][Next]_vars

(***************************************************************************)
(* One run of the program on flat documents whose strings are long enough *)
(* to fill and to exceed a batch, against a provider that answers one      *)
(* segment per unit, answers an empty text, or fails.                      *)
(***************************************************************************)
MaxUnits == 3

Long(n) == [i \in 1..n |-> "x"]
hi == <<"h", "i">>
\* Two of the second fill a batch exactly; the third exceeds one on its own.
LongLeaves == {String(hi), String(Long(748)), String(Long(1499))}
LongCaches == {EmptyMap, hi :> bonjour}

OneSegmentPerUnit == Join([i \in 1..Len(keys_for_batch) |-> monde])

InitBatch == InitOn(Documents(1, LongLeaves, Keys, MaxUnits), LongCaches)

NextBatch ==
    \/ Start
    \/ CacheHit
    \/ AddToBatch
    \/ ReturnCached
    \/ SendRequest
    \/ \E text \in {OneSegmentPerUnit, <<>>} : Answer(text)
    \/ ProviderFails
    \/ ReturnTranslated
    \/ Finish

SpecBatch == InitBatch /\ [][NextBatch]_vars

(***************************************************************************)
(* What the claims speak of.                                               *)
(***************************************************************************)
Missing == [t |-> "Missing"]

\* The leaves of a value in traversal order, each with its position: the
\* sequence of object keys (<<"key", k>>) and array indices (<<"index", i>>)
\* from the root.
RECURSIVE LeavesOf(_, _)
RECURSIVE LeavesOfObject(_, _, _)
RECURSIVE LeavesOfArray(_, _, _)
LeavesOfObject(m, ks, at) ==
    IF ks = <<>> THEN <<>>
    ELSE LeavesOf(m[Head(ks)], Append(at, <<"key", Head(ks)>>))
         \o LeavesOfObject(m, Tail(ks), at)
LeavesOfArray(arr, index, at) ==
    IF index >= Len(arr) THEN <<>>
    ELSE LeavesOf(arr[index + 1], Append(at, <<"index", index>>))
         \o LeavesOfArray(arr, index + 1, at)
LeavesOf(v, at) ==
    CASE v.t = "Object" -> LeavesOfObject(v.m, SortedKeys(DOMAIN v.m), at)
      [] v.t = "Array" -> LeavesOfArray(v.a, 0, at)
      [] OTHER -> <<[at |-> at, value |-> v]>>

IsStringLeaf(l) == l.value.t = "String"
StringLeavesOf(v) == SelectSeq(LeavesOf(v, <<>>), IsStringLeaf)

\* The value at a position of a document, Missing when there is none.
RECURSIVE ValueAt(_, _)
ValueAt(v, at) ==
    IF at = <<>> THEN v
    ELSE LET step == Head(at)
         IN  IF step[1] = "key"
             THEN IF v.t = "Object" /\ step[2] \in DOMAIN v.m
                  THEN ValueAt(v.m[step[2]], Tail(at)) ELSE Missing
             ELSE IF v.t = "Array" /\ step[2] < Len(v.a)
                  THEN ValueAt(v.a[step[2] + 1], Tail(at)) ELSE Missing

RECURSIVE NoReservedKeys(_)
NoReservedKeys(v) ==
    CASE v.t = "Object" ->
            \A k \in DOMAIN v.m :
                /\ Find(k, ARROW) = 0
                /\ Find(k, <<"[">>) = 0
                /\ Find(k, <<"]">>) = 0
                /\ NoReservedKeys(v.m[k])
      [] v.t = "Array" -> \A i \in 1..Len(v.a) : NoReservedKeys(v.a[i])
      [] OTHER -> TRUE

Units == collect_values(doc, <<>>, <<>>)
SourceOf(u) == Units[u][2]
KeyOf(u) == Units[u][1]

WasSent(c) == c.sent
Sent == SelectSeq(calls, WasSent)
\* Sent[j] is the request that responses[j] answers.
Answered == 1..Len(responses)

\* sum over the units of a call of len(source) + len(delimiter)
RECURSIVE SumLen(_)
SumLen(units) ==
    IF units = <<>> THEN 0
    ELSE Len(SourceOf(Head(units))) + Len(suffix) + SumLen(Tail(units))

RECURSIVE Payload(_)
Payload(units) ==
    IF units = <<>> THEN <<>>
    ELSE SourceOf(Head(units)) \o suffix \o Payload(Tail(units))

Min(a, b) == IF a <= b THEN a ELSE b
Last(s) == s[Len(s)]
Front(s) == SubSeq(s, 1, Len(s) - 1)

\* The text is made of segments each followed by the delimiter.
Terminated(text) == Join(Front(Split(text, suffix))) = text
SegmentsOf(text) == Front(Split(text, suffix))

OutputsOf(r) == {i \in 1..Len(outputs) : outputs[i].run = r}

\* The units of request j that the answer pairs with a segment.
PairedIn(j) == 1..Min(Len(Sent[j].units), Len(Split(responses[j].text, suffix)))

\* The position in calls of the request that responses[j] answers.
SentAt(j) ==
    CHOOSE i \in 1..Len(calls) :
        calls[i].sent /\ Cardinality({k \in 1..i : calls[k].sent}) = j

(***************************************************************************)
(* C1.  Round trip: rebuild_json applied to the flat map of flatten_json,  *)
(* with no translation substituted, gives the document back: the same      *)
(* object keys, array lengths, nesting and leaves.                         *)
(***************************************************************************)
C1_RoundTrip ==
    pc = "done" => outputs[1].json = doc

(***************************************************************************)
(* C6.  Path keys are injective: when no object key holds "->", "[" or     *)
(* "]", the flat map has one entry per leaf of the document and no two     *)
(* collected units share a path key.                                       *)
(***************************************************************************)
C6_PathKeysInjective ==
    (pc = "flat" /\ NoReservedKeys(doc)) =>
        /\ Cardinality(DOMAIN flat_map) = Len(LeavesOf(doc, <<>>))
        /\ \A i, j \in 1..Len(values) : i # j => values[i][1] # values[j][1]

(***************************************************************************)
(* C2.  The cache is keyed by source string: after a batch is answered,    *)
(* the cache maps the source string of every paired unit to a segment      *)
(* paired with a unit of that source, and no later request includes a      *)
(* unit of that source.                                                    *)
(***************************************************************************)
C2_CacheKeyedBySource ==
    \A j \in Answered :
        (responses[j].ok /\ responses[j].run = run /\ pc # "init") =>
            \A i \in PairedIn(j) :
                LET source == SourceOf(Sent[j].units[i])
                IN  /\ source \in DOMAIN cache
                    /\ \E j2 \in Answered : \E i2 \in PairedIn(j2) :
                          /\ responses[j2].ok
                          /\ SourceOf(Sent[j2].units[i2]) = source
                          /\ Split(responses[j2].text, suffix)[i2] = cache[source]
                    /\ \A j2 \in (j + 1)..Len(Sent) :
                          \A i2 \in 1..Len(Sent[j2].units) :
                              SourceOf(Sent[j2].units[i2]) # source

(***************************************************************************)
(* C3.  Cache idempotence: when the first run started from an empty cache, *)
(* ended well and recorded a translation for every unit, the second run    *)
(* sends no request and substitutes the same strings.                      *)
(***************************************************************************)
C3_CacheIdempotence ==
    \A o1 \in OutputsOf(1) : \A o2 \in OutputsOf(2) :
        (/\ outputs[o1].loaded = EmptyMap
         /\ \A u \in 1..Len(Units) : KeyOf(u) \in DOMAIN outputs[o1].translated) =>
            /\ \A i \in 1..Len(calls) : calls[i].run = 2 => ~calls[i].sent
            /\ outputs[o2].translated = outputs[o1].translated
            /\ outputs[o2].json = outputs[o1].json

(***************************************************************************)
(* C5.  Order preservation: when a batch of units u_1..u_n is answered by  *)
(* segments s_1..s_m each followed by the delimiter, the run records s_i   *)
(* for the path key of u_i and the output document carries s_i at the leaf *)
(* of u_i, for every i up to min(n, m).                                    *)
(***************************************************************************)
C5_OrderPreservation ==
    \A o \in OutputsOf(run) : \A j \in Answered :
        (/\ pc = "done"
         /\ responses[j].ok
         /\ responses[j].run = run
         /\ Terminated(responses[j].text)) =>
            LET units == Sent[j].units
                segs == SegmentsOf(responses[j].text)
            IN  \A i \in 1..Min(Len(units), Len(segs)) :
                    /\ KeyOf(units[i]) \in DOMAIN outputs[o].translated
                    /\ outputs[o].translated[KeyOf(units[i])] = segs[i]
                    /\ ValueAt(outputs[o].json, StringLeavesOf(doc)[units[i]].at)
                           = String(segs[i])

(***************************************************************************)
(* C8.  Non-string leaves are untouched: a request's payload is made of    *)
(* the sources of string leaves only, every Number, Boolean or Null leaf   *)
(* has its input value at its position in the output document, and a       *)
(* document with no string leaf is written back as it is, with no request. *)
(***************************************************************************)
C8_NonStringLeavesUntouched ==
    /\ \A i \in 1..Len(calls) : calls[i].batch = Payload(calls[i].units)
    /\ \A o \in OutputsOf(run) :
          LET leaves == LeavesOf(doc, <<>>)
          IN  /\ \A l \in 1..Len(leaves) :
                    ~IsStringLeaf(leaves[l]) =>
                        ValueAt(outputs[o].json, leaves[l].at) = leaves[l].value
              /\ StringLeavesOf(doc) = <<>> =>
                    /\ outputs[o].json = doc
                    /\ \A i \in 1..Len(calls) : ~calls[i].sent

(***************************************************************************)
(* C4.  Batch size bound: every batch handed to translate_batch has        *)
(* sum over its units of len(source) + len(delimiter) at most              *)
(* BATCH_SIZE_LIMIT, or is one unit that exceeds the limit on its own.     *)
(***************************************************************************)
C4_BatchSizeBound ==
    \A i \in 1..Len(calls) :
        /\ Len(calls[i].batch) = SumLen(calls[i].units)
        /\ Len(calls[i].keys) = Len(calls[i].units)
        /\ \/ SumLen(calls[i].units) <= BATCH_SIZE_LIMIT
           \/ Len(calls[i].units) = 1

\* A batch of two units that fills the limit exactly, and an oversized
\* unit handed over alone.
C4_Witness ==
    \E i, j \in 1..Len(calls) :
        /\ Len(calls[i].units) = 2
        /\ SumLen(calls[i].units) = BATCH_SIZE_LIMIT
        /\ Len(calls[j].units) = 1
        /\ SumLen(calls[j].units) > BATCH_SIZE_LIMIT

(***************************************************************************)
(* C7.  Abort on translation failure: once a request has failed, the run   *)
(* is in error; the failed request is the last call and the last answer of *)
(* its run, the run writes no output document, and the cache file is what  *)
(* the run loaded.                                                         *)
(***************************************************************************)
C7_AbortOnFailure ==
    \A j \in Answered :
        ~responses[j].ok =>
            LET r == responses[j].run
            IN  /\ \A j2 \in (j + 1)..Len(responses) : responses[j2].run # r
                /\ \A i \in (SentAt(j) + 1)..Len(calls) : calls[i].run # r
                /\ OutputsOf(r) = {}
                /\ r = run => (pc = "error" /\ cache_file = loaded)

\* A failure after an answered batch of the same run, with units still to
\* be processed and entries gained that the cache file does not hold.
C7_Witness ==
    /\ pc = "error"
    /\ Len(responses) >= 2
    /\ responses[1].ok /\ responses[1].run = run
    /\ ~AtEnd
    /\ cache # loaded
    /\ cache_file = loaded

(***************************************************************************)
(* C9.  Cache filtering before batching: a unit whose source string the    *)
(* cache holds when the loop reaches it gets the cached value as its       *)
(* translation and changes neither the batch nor its length, and causes no *)
(* call; when the loaded cache holds every source of the document the run  *)
(* sends no request; the cache {"hello": "bonjour"} and the input          *)
(* {"a": "hello"} give the output {"a": "bonjour"}.                        *)
(***************************************************************************)
C9_CacheFiltering ==
    /\ [][(pc = "loop" /\ idx <= Len(values) /\ values[idx][2] \in DOMAIN cache) =>
              /\ translated' = Insert(translated, values[idx][1], cache[values[idx][2]])
              /\ idx' = idx + 1
              /\ UNCHANGED <<batch, batch_length, keys_for_batch, cache, calls,
                             responses>>]_vars
    /\ [](pc \in {"merge", "done"}
            /\ (\A u \in 1..Len(Units) : SourceOf(u) \in DOMAIN loaded)
          => \A i \in 1..Len(calls) : calls[i].run # run)
    /\ [](pc = "done"
            /\ doc = Object(<<"a">> :> String(hello))
            /\ loaded = (hello :> bonjour)
          => /\ \A i \in 1..Len(calls) : calls[i].run # run
             /\ \A o \in OutputsOf(run) :
                   outputs[o].json = Object(<<"a">> :> String(bonjour)))

\* The run of the example has ended.
C9_Witness ==
    /\ pc = "done"
    /\ run = 1
    /\ doc = Object(<<"a">> :> String(hello))
    /\ loaded = (hello :> bonjour)
    /\ calls = <<>>
    /\ Len(outputs) = 1
    /\ outputs[1].json = Object(<<"a">> :> String(bonjour))

(***************************************************************************)
(* C10.  No empty request: no request is sent for a batch of zero units,   *)
(* and the flush of an empty batch sends nothing and changes neither the   *)
(* cache nor the translations collected so far.                            *)
(***************************************************************************)
C10_NoEmptyRequest ==
    /\ [](\A i \in 1..Len(calls) :
             calls[i].sent =>
                 calls[i].units # <<>> /\ calls[i].keys # <<>> /\ calls[i].batch # <<>>)
    /\ [][(Len(calls') = Len(calls) + 1 /\ Last(calls').keys = <<>>) =>
              /\ ~Last(calls').sent
              /\ pc' = "loop"
              /\ UNCHANGED <<cache, translated, responses>>]_vars

\* The first unit the cache does not hold is oversized: an empty batch was
\* flushed, after a translation had been collected from the cache.
C10_Witness ==
    \E i \in 1..Len(calls) :
        /\ calls[i].units = <<>>
        /\ ~calls[i].sent
        /\ DOMAIN translated # {}
        /\ cache # EmptyMap
        /\ Len(batch) > BATCH_SIZE_LIMIT

====
